---- MODULE Spec2Model ----
(***************************************************************************)
(* A model of git-cfsync (src/git-cfsync.py): the command line entry       *)
(* point, the CfGitRepository configuration loader and the periodic task   *)
(* runner, together with the text functions they rely on (str.strip,       *)
(* str.split, shlex.split).                                                *)
(*                                                                         *)
(* Python strings that the program takes apart are modelled as sequences   *)
(* of one-character strings, so that stripping, splitting and shell-style  *)
(* word splitting are computed character by character.                     *)
(***************************************************************************)
EXTENDS Integers, Sequences, FiniteSets, TLC

(***************************************************************************)
(* Bounds of the model.                                                    *)
(***************************************************************************)
\* longest command line (tokens after the program name) explored
MaxArgs == 3
\* longest configuration-query output explored by SpecParse
MaxTextLen == 4

(***************************************************************************)
(* Characters and fixed strings.                                           *)
(***************************************************************************)
NL == "\n"
SP == " "
SQ == "'"

\* shlex.shlex defaults in POSIX mode
whitespace == {" ", "\t", "\r", "\n"}
quotes == {"'", "\""}
escape == {"\\"}
escapedquotes == {"\""}

GIT == <<"g", "i", "t">>
FETCH == <<"f", "e", "t", "c", "h">>
MERGE == <<"m", "e", "r", "g", "e">>
PULL == <<"p", "u", "l", "l">>
CONFIG == <<"c", "o", "n", "f", "i", "g">>
GET_ALL == <<"-", "-", "g", "e", "t", "-", "a", "l", "l">>
CFSYNC_DOT == <<"c", "f", "s", "y", "n", "c", ".">>

\* the literal 'config --get-all cfsync.' of _gather_sync_config
ConfigCmdPrefix == CONFIG \o <<SP>> \o GET_ALL \o <<SP>> \o CFSYNC_DOT

\* the tuple iterated by _gather_sync_config
Keys == <<FETCH, MERGE, PULL>>

\* the tuple iterated by run_periodic_tasks
CommandsKeyOrder == <<FETCH, MERGE, PULL>>
Commands == <<FETCH, PULL, MERGE>>

(***************************************************************************)
(* str.strip('\n') and str.split('\n').                                    *)
(***************************************************************************)
RECURSIVE LStrip(_)
LStrip(s) ==
    IF s # <<>> /\ Head(s) = NL THEN LStrip(Tail(s)) ELSE s

RECURSIVE RStrip(_)
RStrip(s) ==
    IF s # <<>> /\ s[Len(s)] = NL THEN RStrip(SubSeq(s, 1, Len(s) - 1)) ELSE s

\* s.strip('\n'): every leading and every trailing newline is removed
Strip(s) == RStrip(LStrip(s))

\* index of the first newline of s, or 0
RECURSIVE FindNL(_, _)
FindNL(s, i) ==
    IF i > Len(s) THEN 0
    ELSE IF s[i] = NL THEN i
    ELSE FindNL(s, i + 1)

\* s.split('\n'): always at least one element
RECURSIVE Split(_)
Split(s) ==
    LET i == FindNL(s, 1) IN
    IF i = 0 THEN <<s>>
    ELSE <<SubSeq(s, 1, i - 1)>> \o Split(SubSeq(s, i + 1, Len(s)))

\* a variant that trims one trailing newline only
ParseOutputOneNewline(text) ==
    Split(IF text # <<>> /\ text[Len(text)] = NL
          THEN SubSeq(text, 1, Len(text) - 1) ELSE text)

\* the expression  <output>.strip('\n').split('\n')  of _gather_sync_config
ParseOutput(text) == Split(Strip(text))

(***************************************************************************)
(* shlex.split(s): shlex in POSIX mode, whitespace_split on, no comments.  *)
(* The lexer state is the one of shlex.read_token: " " between words, "a"  *)
(* inside a word, a quote character inside quotes, the escape character    *)
(* after a backslash.  The result is [err, words]: err is "" or the        *)
(* message of the ValueError raised.                                       *)
(***************************************************************************)
RECURSIVE Lex(_, _, _, _, _, _, _)
Lex(s, i, state, escapedstate, token, quoted, out) ==
    LET emit == IF token # <<>> \/ quoted THEN Append(out, token) ELSE out IN
    IF i > Len(s) THEN
        \* end of input
        IF state \in quotes THEN [err |-> "No closing quotation", words |-> <<>>]
        ELSE IF state \in escape THEN [err |-> "No escaped character", words |-> <<>>]
        ELSE [err |-> "", words |-> emit]
    ELSE
        LET c == s[i] IN
        IF state = " " THEN
            IF c \in whitespace THEN
                Lex(s, i + 1, " ", " ", <<>>, FALSE, emit)
            ELSE IF c \in escape THEN
                Lex(s, i + 1, c, "a", token, quoted, out)
            ELSE IF c \in quotes THEN
                Lex(s, i + 1, c, escapedstate, token, quoted, out)
            ELSE
                Lex(s, i + 1, "a", escapedstate, <<c>>, quoted, out)
        ELSE IF state \in quotes THEN
            IF c = state THEN
                Lex(s, i + 1, "a", escapedstate, token, TRUE, out)
            ELSE IF c \in escape /\ state \in escapedquotes THEN
                Lex(s, i + 1, c, state, token, TRUE, out)
            ELSE
                Lex(s, i + 1, state, escapedstate, Append(token, c), TRUE, out)
        ELSE IF state \in escape THEN
            LET kept == IF escapedstate \in quotes /\ c # state /\ c # escapedstate
                        THEN Append(token, state) ELSE token IN
            Lex(s, i + 1, escapedstate, escapedstate, Append(kept, c), quoted, out)
        ELSE
            \* state "a"
            IF c \in whitespace THEN
                Lex(s, i + 1, " ", " ", <<>>, FALSE, emit)
            ELSE IF c \in quotes THEN
                Lex(s, i + 1, c, escapedstate, token, quoted, out)
            ELSE IF c \in escape THEN
                Lex(s, i + 1, c, "a", token, quoted, out)
            ELSE
                Lex(s, i + 1, "a", escapedstate, Append(token, c), quoted, out)

ShlexSplit(s) == Lex(s, 1, " ", " ", <<>>, FALSE, <<>>)

(***************************************************************************)
(* The state of one process run.                                           *)
(***************************************************************************)
VARIABLES
    pc,          \* "start", "init", "gather", "run", "exited"; "text"/"parsed" in SpecParse
    argv,        \* the command line after the program name
    loglevel,    \* args.loglevel: "None", "INFO" or "DEBUG"
    cwd,         \* the process working directory: "orig" or "repo"
    config,      \* the dict built by _gather_sync_config (self.config)
    out,         \* what the configuration store answered, per key queried
    calls,       \* the git subprocesses run so far, in order: [cmd, rc]
    stdout,      \* lines written to standard output
    stderr,      \* lines written to standard error: [kind, msg]
    exitStatus,  \* the process exit status, -1 while running
    raised,      \* the exception that reached main's handler, or "none"
    keyIdx,      \* position of _gather_sync_config in Keys
    cmdIdx,      \* position of run_periodic_tasks in Commands
    tgtIdx,      \* position of _run_git_generic in the category's targets
    text,        \* SpecParse: a configuration-query output
    parsed       \* SpecParse: the result of parsing text

vars == <<pc, argv, loglevel, cwd, config, out, calls, stdout, stderr,
          exitStatus, raised, keyIdx, cmdIdx, tgtIdx, text, parsed>>

(***************************************************************************)
(* Inputs.                                                                 *)
(***************************************************************************)
\* command-line tokens: the option strings of parse_arguments and a path
ArgTokens == {"-d", "-v", "-V", "PATH"}

RECURSIVE SeqsUpTo(_, _)
SeqsUpTo(S, n) ==
    IF n = 0 THEN {<<>>}
    ELSE LET shorter == SeqsUpTo(S, n - 1) IN
         shorter \cup {Append(s, x) : s \in {t \in shorter : Len(t) = n - 1}, x \in S}

ArgvSet == SeqsUpTo(ArgTokens, MaxArgs)

\* texts a successful `git config --get-all` may print: one value per line
Outputs ==
    { <<>>,
      <<NL>>,
      <<"a", NL>>,
      <<"a", NL, "b", NL>>,
      <<"a", SP, "b", NL>>,
      <<SQ, NL>>,
      <<NL, "a", NL>>,
      <<SQ, "a", SP, "b", SQ, NL>> }

\* what running git can do: exit 0 with a text, exit non-zero, or not start
QueryOutcomes ==
    {[kind |-> "exit", rc |-> 0, text |-> t] : t \in Outputs}
        \cup {[kind |-> "exit", rc |-> 1, text |-> <<>>],
              [kind |-> "oserror", rc |-> 1, text |-> <<>>]}

SubcmdOutcomes ==
    {[kind |-> "exit", rc |-> 0, text |-> <<>>],
     [kind |-> "exit", rc |-> 1, text |-> <<>>],
     [kind |-> "oserror", rc |-> 1, text |-> <<>>]}

(***************************************************************************)
(* parse_arguments: argparse over the four declared arguments.              *)
(***************************************************************************)
\* a variant in which -V is a plain flag
OptionActionNoVersion(tok) ==
    IF tok \in {"-d", "--debug"} THEN "store_debug"
    ELSE IF tok \in {"-v", "--verbose"} THEN "store_info"
    ELSE IF tok \in {"-V", "--version"} THEN "store_true"
    ELSE "positional"

OptionAction(tok) ==
    IF tok \in {"-d", "--debug"} THEN "store_debug"
    ELSE IF tok \in {"-v", "--verbose"} THEN "store_info"
    ELSE IF tok \in {"-V", "--version"} THEN "version"
    ELSE "positional"

\* argparse consumes the tokens left to right; the version action exits when
\* it is met; a missing or surplus positional is reported after the last token
RECURSIVE ParseFrom(_, _, _, _)
ParseFrom(args, i, level, npos) ==
    IF i > Len(args) THEN
        IF npos = 1 THEN [kind |-> "ok", loglevel |-> level]
        ELSE [kind |-> "error", loglevel |-> level]
    ELSE
        LET act == OptionAction(args[i]) IN
        IF act = "version" THEN [kind |-> "version", loglevel |-> level]
        ELSE IF act = "store_debug" THEN ParseFrom(args, i + 1, "DEBUG", npos)
        ELSE IF act = "store_info" THEN ParseFrom(args, i + 1, "INFO", npos)
        ELSE IF act = "positional" THEN ParseFrom(args, i + 1, level, npos + 1)
        ELSE ParseFrom(args, i + 1, level, npos)

parse_arguments(args) == ParseFrom(args, 1, "None", 0)

(***************************************************************************)
(* Logging and the error boundary of main.                                 *)
(***************************************************************************)
\* log.debug(msg): emitted only when the root level was set to DEBUG
Debug(err, level, msg) ==
    IF level = "DEBUG" THEN Append(err, [kind |-> "DEBUG", msg |-> msg]) ELSE err

ReRaiseAnyLevel(level) == level # "None"
ReRaiseNever(level) == FALSE
\* the test  args.loglevel == logging.DEBUG  of the except clause
ReRaise(level) == level = "DEBUG"

\* an exception e leaves the try block of main with err written so far
Raise(e, err) ==
    /\ raised' = e
    /\ pc' = "exited"
    /\ IF ReRaise(loglevel)
       THEN /\ stderr' = Append(err, [kind |-> "Traceback", msg |-> e])
            /\ exitStatus' = 1
       ELSE /\ stderr' = Append(err, [kind |-> "Error:", msg |-> e])
            /\ exitStatus' = 0

(***************************************************************************)
(* CfGitRepository helpers.                                                *)
(***************************************************************************)
None == [isNone |-> TRUE, list |-> <<>>]
List(l) == [isNone |-> FALSE, list |-> l]

\* check_output raises CalledProcessError on a non-zero exit status
CheckReturnIgnored(rc) == FALSE
CheckReturn(rc) == rc # 0

\* the value stored by the except clause of _gather_sync_config
ExceptValueEmptyTarget == List(<<<<>>>>)
ExceptValue == None

\* truth value of self.config[command]: None and [] are false
TruthyAnyTarget(v) == ~v.isNone /\ \E i \in 1..Len(v.list) : v.list[i] # <<>>
Truthy(v) == ~v.isNone /\ Len(v.list) > 0

\* the command string built by _run_git_generic
SubcmdStringNoSpace(subcmd, target) == subcmd \o target
SubcmdString(subcmd, target) == subcmd \o <<SP>> \o target

\* the command string built by _gather_sync_config
ConfigString(key) == ConfigCmdPrefix \o key

\* the argument vector built by _git, or the ValueError of shlex.split
GitCmd(cmdstr) ==
    LET sp == ShlexSplit(cmdstr) IN
    [err |-> sp.err, cmd |-> <<GIT>> \o sp.words]

(***************************************************************************)
(* Initial states.                                                         *)
(***************************************************************************)
Init ==
    /\ pc = "start"
    /\ argv \in ArgvSet
    /\ loglevel = "None"
    /\ cwd = "orig"
    /\ config = <<>>
    /\ out = <<>>
    /\ calls = <<>>
    /\ stdout = <<>>
    /\ stderr = <<>>
    /\ exitStatus = -1
    /\ raised = "none"
    /\ keyIdx = 1
    /\ cmdIdx = 1
    /\ tgtIdx = 1
    /\ text = <<>>
    /\ parsed = <<>>

(***************************************************************************)
(* main, up to the try block: parse the command line, set the log level.   *)
(***************************************************************************)
MainParse ==
    /\ pc = "start"
    /\ LET args == parse_arguments(argv) IN
       IF args.kind = "version" THEN
           /\ stdout' = Append(stdout, "0.1")
           /\ exitStatus' = 0
           /\ pc' = "exited"
           /\ UNCHANGED <<loglevel, stderr>>
       ELSE IF args.kind = "error" THEN
           /\ stderr' = Append(stderr, [kind |-> "usage", msg |-> "error"])
           /\ exitStatus' = 2
           /\ pc' = "exited"
           /\ UNCHANGED <<loglevel, stdout>>
       ELSE
           /\ loglevel' = args.loglevel
           /\ stderr' = IF args.loglevel # "None"
                        THEN Debug(stderr, args.loglevel, "Set logging level")
                        ELSE stderr
           /\ pc' = "init"
           /\ UNCHANGED <<stdout, exitStatus>>
    /\ UNCHANGED <<argv, cwd, config, out, calls, raised, keyIdx, cmdIdx, tgtIdx,
                   text, parsed>>

(***************************************************************************)
(* CfGitRepository.__init__ up to the call of _gather_sync_config.         *)
(***************************************************************************)
Construct ==
    /\ pc = "init"
    /\ LET err == Debug(stderr, loglevel, "Initialized logger") IN
       \E ok \in BOOLEAN :
           IF ok THEN
               /\ cwd' = "repo"
               /\ stderr' = err
               /\ pc' = "gather"
               /\ UNCHANGED <<exitStatus, raised>>
           ELSE
               /\ Raise("OSError", err)
               /\ UNCHANGED cwd
    /\ keyIdx' = 1
    /\ config' = <<>>
    /\ UNCHANGED <<argv, loglevel, out, calls, stdout, cmdIdx, tgtIdx, text, parsed>>

(***************************************************************************)
(* One iteration of the loop of _gather_sync_config.                       *)
(***************************************************************************)
GatherKey ==
    /\ pc = "gather"
    /\ keyIdx <= Len(Keys)
    /\ LET key == Keys[keyIdx]
           git == GitCmd(ConfigString(key))
           err == Debug(stderr, loglevel, "Running git command")
       IN
       IF git.err # "" THEN
           /\ Raise("ValueError", stderr)
           /\ UNCHANGED <<config, out, calls, keyIdx, cmdIdx, tgtIdx>>
       ELSE
           \E o \in QueryOutcomes :
               IF o.kind = "oserror" THEN
                   /\ Raise("OSError", err)
                   /\ UNCHANGED <<config, out, calls, keyIdx, cmdIdx, tgtIdx>>
               ELSE
                   /\ calls' = Append(calls, [cmd |-> git.cmd, rc |-> o.rc])
                   /\ out' = out @@ (key :> o)
                   /\ IF CheckReturn(o.rc) THEN
                          /\ config' = config @@ (key :> ExceptValue)
                          /\ stderr' = err
                      ELSE
                          /\ config' = config @@ (key :> List(ParseOutput(o.text)))
                          /\ stderr' = Debug(err, loglevel, "setting config")
                   /\ keyIdx' = keyIdx + 1
                   /\ pc' = IF keyIdx = Len(Keys) THEN "run" ELSE "gather"
                   /\ cmdIdx' = 1
                   /\ tgtIdx' = 1
                   /\ UNCHANGED <<exitStatus, raised>>
    /\ UNCHANGED <<argv, loglevel, cwd, stdout, text, parsed>>

(***************************************************************************)
(* run_periodic_tasks and _run_git_generic.                                *)
(***************************************************************************)
\* one iteration of _run_git_generic: run the subcommand for one target
RunTarget ==
    /\ pc = "run"
    /\ cmdIdx <= Len(Commands)
    /\ Truthy(config[Commands[cmdIdx]])
    /\ tgtIdx <= Len(config[Commands[cmdIdx]].list)
    /\ LET command == Commands[cmdIdx]
           target == config[command].list[tgtIdx]
           git == GitCmd(SubcmdString(command, target))
           err == Debug(stderr, loglevel, "Running git command")
       IN
       IF git.err # "" THEN
           /\ Raise("ValueError", stderr)
           /\ UNCHANGED <<calls, tgtIdx>>
       ELSE
           \E o \in SubcmdOutcomes :
               IF o.kind = "oserror" THEN
                   /\ Raise("OSError", err)
                   /\ UNCHANGED <<calls, tgtIdx>>
               ELSE
                   /\ calls' = Append(calls, [cmd |-> git.cmd, rc |-> o.rc])
                   /\ IF CheckReturn(o.rc) THEN
                          /\ Raise("CalledProcessError", err)
                          /\ UNCHANGED tgtIdx
                      ELSE
                          /\ stderr' = err
                          /\ tgtIdx' = tgtIdx + 1
                          /\ UNCHANGED <<pc, exitStatus, raised>>
    /\ UNCHANGED <<argv, loglevel, cwd, config, out, stdout, keyIdx, cmdIdx,
                   text, parsed>>

\* run_periodic_tasks moves to the next command: the category is false, or
\* _run_git_generic has gone through its targets
NextCommand ==
    /\ pc = "run"
    /\ cmdIdx <= Len(Commands)
    /\ \/ ~Truthy(config[Commands[cmdIdx]])
       \/ tgtIdx > Len(config[Commands[cmdIdx]].list)
    /\ cmdIdx' = cmdIdx + 1
    /\ tgtIdx' = 1
    /\ UNCHANGED <<pc, argv, loglevel, cwd, config, out, calls, stdout, stderr,
                   exitStatus, raised, keyIdx, text, parsed>>

\* run_periodic_tasks returns, main returns, the interpreter exits
Finish ==
    /\ pc = "run"
    /\ cmdIdx > Len(Commands)
    /\ pc' = "exited"
    /\ exitStatus' = 0
    /\ UNCHANGED <<argv, loglevel, cwd, config, out, calls, stdout, stderr,
                   raised, keyIdx, cmdIdx, tgtIdx, text, parsed>>

Next ==
    \/ MainParse
    \/ Construct
    \/ GatherKey
    \/ RunTarget
    \/ NextCommand
    \/ Finish

Spec == Init /\ [][Next]_vars

(***************************************************************************)
(* SpecParse: the parsing of a configuration-query output, over every      *)
(* text of at most MaxTextLen characters.                                  *)
(***************************************************************************)
TextChars == {"a", "b", NL}

Texts == SeqsUpTo(TextChars, MaxTextLen)

InitParse ==
    /\ pc = "text"
    /\ text \in Texts
    /\ parsed = <<>>
    /\ argv = <<>>
    /\ loglevel = "None"
    /\ cwd = "orig"
    /\ config = <<>>
    /\ out = <<>>
    /\ calls = <<>>
    /\ stdout = <<>>
    /\ stderr = <<>>
    /\ exitStatus = -1
    /\ raised = "none"
    /\ keyIdx = 1
    /\ cmdIdx = 1
    /\ tgtIdx = 1

ParseText ==
    /\ pc = "text"
    /\ parsed' = ParseOutput(text)
    /\ pc' = "parsed"
    /\ UNCHANGED <<argv, loglevel, cwd, config, out, calls, stdout, stderr,
                   exitStatus, raised, keyIdx, cmdIdx, tgtIdx, text>>

NextParse == ParseText

SpecParse == InitParse /\ [][NextParse]_vars

(***************************************************************************)
(* Vocabulary of the properties.                                           *)
(***************************************************************************)
Categories == {FETCH, PULL, MERGE}

IsQuery(c) == c.cmd[2] = CONFIG
IsSub(c) == c.cmd[2] \in Categories

\* position of a category in the order fetch, pull, merge
Rank(cat) == IF cat = FETCH THEN 1 ELSE IF cat = PULL THEN 2 ELSE 3

\* indices of the subcommand invocations of a category
CallsOf(cat) == {i \in 1..Len(calls) : calls[i].cmd[2] = cat}

\* the subcommand invocations, in order
SubCalls == SelectSeq(calls, IsSub)

\* all three configuration queries have been answered
Loaded == DOMAIN out = Categories

\* the <<category, target>> pairs of one category, in list order
PlanOf(cat) ==
    IF config[cat].isNone THEN <<>>
    ELSE [i \in 1..Len(config[cat].list) |-> <<cat, config[cat].list[i]>>]

\* what a run is to invoke: fetch targets, then pull targets, then merge targets
Plan == PlanOf(FETCH) \o PlanOf(PULL) \o PlanOf(MERGE)

\* the run went through run_periodic_tasks without any failure
CompletedRun == pc = "exited" /\ raised = "none" /\ Loaded

\* the whitespace-separated fields of a string without quotes or backslashes
RECURSIVE Fields(_, _)
Fields(s, word) ==
    IF s = <<>> THEN (IF word = <<>> THEN <<>> ELSE <<word>>)
    ELSE IF Head(s) \in whitespace
         THEN (IF word = <<>> THEN <<>> ELSE <<word>>) \o Fields(Tail(s), <<>>)
         ELSE Fields(Tail(s), Append(word, Head(s)))

Plain(s) == \A i \in 1..Len(s) : s[i] \notin quotes \cup escape

\* the arguments a target contributes to the argument vector
TargetWords(target) ==
    IF Plain(target) THEN Fields(target, <<>>) ELSE ShlexSplit(target).words

(***************************************************************************)
(* C1: in every run every fetch invocation precedes every pull invocation  *)
(* and every pull invocation precedes every merge invocation, although the *)
(* configuration is queried in the order fetch, merge, pull.               *)
(***************************************************************************)
C1_FetchPullMergeOrder ==
    /\ \A i, j \in 1..Len(calls) :
           (i < j /\ IsSub(calls[i]) /\ IsSub(calls[j]))
               => Rank(calls[i].cmd[2]) <= Rank(calls[j].cmd[2])
    /\ \A i \in 1..Len(calls) :
           IsQuery(calls[i]) =>
               /\ i <= 3
               /\ calls[i].cmd[4] = CFSYNC_DOT \o <<FETCH, MERGE, PULL>>[i]

C1_Witness ==
    /\ CompletedRun
    /\ CallsOf(FETCH) # {} /\ CallsOf(PULL) # {} /\ CallsOf(MERGE) # {}

(***************************************************************************)
(* C2: a subcommand invocation that exits non-zero is the last invocation  *)
(* of the run: the run ends there with CalledProcessError, every earlier   *)
(* invocation stays as it completed, and the number of subcommand          *)
(* invocations is the position of the failing call in the sequence of      *)
(* fetch, then pull, then merge targets.                                   *)
(***************************************************************************)
C2_AbortAtFailingCall ==
    \A i \in 1..Len(calls) :
        (IsSub(calls[i]) /\ calls[i].rc # 0) =>
            /\ i = Len(calls)
            /\ pc = "exited"
            /\ raised = "CalledProcessError"
            /\ \A j \in 1..(i - 1) : IsSub(calls[j]) => calls[j].rc = 0
            /\ LET n == Len(SubCalls) IN
               /\ n <= Len(Plan)
               /\ calls[i].cmd = <<GIT, Plan[n][1]>> \o TargetWords(Plan[n][2])
               /\ \A k \in 1..n :
                      SubCalls[k].cmd = <<GIT, Plan[k][1]>> \o TargetWords(Plan[k][2])

C2_Witness ==
    /\ pc = "exited"
    /\ Len(SubCalls) = 2
    /\ Len(Plan) > 2
    /\ SubCalls[2].rc # 0
    /\ SubCalls[2].cmd[2] = PULL

(***************************************************************************)
(* C3 as stated: a failure-free run invokes the tool once per target, in   *)
(* list order, with argument vector exactly [git, category, target].       *)
(***************************************************************************)
C3_Original ==
    CompletedRun =>
        /\ Len(SubCalls) = Len(Plan)
        /\ \A n \in 1..Len(Plan) :
               SubCalls[n].cmd = <<GIT, Plan[n][1], Plan[n][2]>>

(***************************************************************************)
(* C3 amended: a failure-free run invokes the tool once per target, in     *)
(* list order, with argument vector [git, category] followed by the words  *)
(* of the target under shell-style splitting: a target without whitespace, *)
(* quotes or backslashes is the sole argument, a target with whitespace    *)
(* gives one argument per field, an empty target gives none.               *)
(***************************************************************************)
C3_ArgvIsShellSplitOfTarget ==
    CompletedRun =>
        /\ Len(SubCalls) = Len(Plan)
        /\ \A n \in 1..Len(Plan) :
               /\ SubCalls[n].cmd = <<GIT, Plan[n][1]>> \o TargetWords(Plan[n][2])
               /\ SubCalls[n].rc = 0
               /\ (Plan[n][2] # <<>> /\ Plain(Plan[n][2])
                       /\ \A i \in 1..Len(Plan[n][2]) : Plan[n][2][i] \notin whitespace)
                      => SubCalls[n].cmd = <<GIT, Plan[n][1], Plan[n][2]>>

C3_Witness ==
    /\ CompletedRun
    /\ ~config[FETCH].isNone
    /\ config[FETCH].list = << <<"a", SP, "b">> >>
    /\ config[PULL].list = << <<"a">>, <<"b">> >>
    /\ SubCalls[1].cmd = <<GIT, FETCH, <<"a">>, <<"b">>>>
    /\ SubCalls[2].cmd = <<GIT, PULL, <<"a">>>>
    /\ SubCalls[3].cmd = <<GIT, PULL, <<"b">>>>

(***************************************************************************)
(* C4 as stated: the parsed sequence is the text with exactly one trailing *)
(* newline removed, split on newlines.                                     *)
(***************************************************************************)
C4_Original ==
    pc = "parsed" =>
        parsed = Split(IF text # <<>> /\ text[Len(text)] = NL
                       THEN SubSeq(text, 1, Len(text) - 1) ELSE text)

\* the elements of l joined by newlines
RECURSIVE JoinNL(_)
JoinNL(l) ==
    IF Len(l) = 0 THEN <<>>
    ELSE IF Len(l) = 1 THEN l[1]
    ELSE l[1] \o <<NL>> \o JoinNL(Tail(l))

\* core is t without its leading and trailing newlines
IsCore(core, t) ==
    /\ core = <<>> \/ (core[1] # NL /\ core[Len(core)] # NL)
    /\ \E i, j \in 0..Len(t) :
           /\ i + j <= Len(t)
           /\ core = SubSeq(t, i + 1, Len(t) - j)
           /\ \A k \in 1..i : t[k] = NL
           /\ \A k \in (Len(t) - j + 1)..Len(t) : t[k] = NL

(***************************************************************************)
(* C4 amended: the parsed sequence is the text with all its leading and    *)
(* all its trailing newlines removed, split on newlines, order preserved:  *)
(* its elements contain no newline and joined by newlines they give back   *)
(* the trimmed text; "a\nb\n" parses to ["a", "b"]; leading and trailing   *)
(* empty entries are dropped.                                              *)
(***************************************************************************)
C4_ParseStripsAllOuterNewlines ==
    pc = "parsed" =>
        /\ Len(parsed) >= 1
        /\ \A n \in 1..Len(parsed) : \A k \in 1..Len(parsed[n]) : parsed[n][k] # NL
        /\ IsCore(JoinNL(parsed), text)
        /\ text = <<"a", NL, "b", NL>> => parsed = << <<"a">>, <<"b">> >>

C4_Witness ==
    /\ pc = "parsed"
    /\ text = <<NL, "a", NL, NL>>
    /\ parsed = << <<"a">> >>

(***************************************************************************)
(* C5: when the three queries all fail (keys unset), the run makes exactly *)
(* three tool invocations, all configuration queries, no subcommand        *)
(* invocation, and ends without error with status 0.                       *)
(***************************************************************************)
C5_AllUnsetOnlyQueries ==
    (Loaded /\ \A k \in Categories : out[k].rc # 0) =>
        /\ Len(calls) = 3
        /\ \A i \in 1..3 : IsQuery(calls[i])
        /\ SubCalls = <<>>
        /\ raised = "none"
        /\ \A i \in 1..Len(stderr) : stderr[i].kind = "DEBUG"
        /\ pc \in {"run", "exited"}
        /\ pc = "exited" => exitStatus = 0

C5_Witness ==
    /\ Loaded
    /\ \A k \in Categories : out[k].rc # 0
    /\ pc = "exited"
    /\ exitStatus = 0

(***************************************************************************)
(* C6: when the log level is not DEBUG, an exception raised by the change  *)
(* of directory, the configuration load or the tasks ends the process at   *)
(* the handler of main: standard error holds exactly the one line          *)
(* 'Error: <message>', nothing runs afterwards, the exit status is 0.      *)
(***************************************************************************)
C6_NonDebugSwallowsError ==
    (loglevel # "DEBUG" /\ raised # "none") =>
        /\ pc = "exited"
        /\ stderr = <<[kind |-> "Error:", msg |-> raised]>>
        /\ exitStatus = 0

C6_Witness ==
    /\ loglevel = "INFO"
    /\ raised = "CalledProcessError"
    /\ exitStatus = 0
    /\ pc = "exited"

\* the command line holds -d or --debug
HasDebugFlag == \E i \in 1..Len(argv) : argv[i] \in {"-d", "--debug"}

\* -d or --debug is the last of the log level options on the command line
DebugFlagLast ==
    \E i \in 1..Len(argv) :
        /\ argv[i] \in {"-d", "--debug"}
        /\ \A j \in (i + 1)..Len(argv) : argv[j] \notin {"-v", "--verbose"}

(***************************************************************************)
(* C7 as stated: with -d/--debug anywhere on the command line a failure is *)
(* re-raised: no 'Error:' line, non-zero exit status.                      *)
(***************************************************************************)
C7_Original ==
    (HasDebugFlag /\ raised # "none") =>
        /\ \A i \in 1..Len(stderr) : stderr[i].kind # "Error:"
        /\ exitStatus # 0

(***************************************************************************)
(* C7 amended: when -d/--debug is the last log level option of the command *)
(* line (alone, or after -v/--verbose), a failure is re-raised by main: no *)
(* 'Error:' line is printed, the traceback is, and the exit status is 1.   *)
(***************************************************************************)
C7_DebugLastReRaises ==
    (DebugFlagLast /\ raised # "none") =>
        /\ pc = "exited"
        /\ \A i \in 1..Len(stderr) : stderr[i].kind # "Error:"
        /\ stderr[Len(stderr)] = [kind |-> "Traceback", msg |-> raised]
        /\ exitStatus = 1

C7_Witness ==
    /\ argv = <<"-v", "-d", "PATH">>
    /\ raised = "CalledProcessError"
    /\ exitStatus = 1

(***************************************************************************)
(* C8: with -V on the command line the version is printed and the process  *)
(* exits during argument parsing: the working directory is not changed, no *)
(* CfGitRepository is constructed and git is never invoked.                *)
(***************************************************************************)
C8_VersionTouchesNothing ==
    (\E i \in 1..Len(argv) : argv[i] \in {"-V", "--version"}) =>
        /\ pc \in {"start", "exited"}
        /\ cwd = "orig"
        /\ calls = <<>>
        /\ config = <<>>
        /\ raised = "none"
        /\ pc = "exited" => (stdout = <<"0.1">> /\ stderr = <<>> /\ exitStatus = 0)

C8_Witness ==
    /\ argv = <<"-d", "PATH", "-V">>
    /\ pc = "exited"
    /\ stdout = <<"0.1">>

(***************************************************************************)
(* C9: a configuration query that exits non-zero records its category as   *)
(* absent and is no error: the three queries are made in the order fetch,  *)
(* merge, pull before any subcommand, an absent category gets no           *)
(* subcommand invocation and the other categories run as configured.       *)
(***************************************************************************)
C9_FailedQueryMeansAbsent ==
    /\ \A k \in DOMAIN out : config[k].isNone <=> out[k].rc # 0
    /\ \A k \in DOMAIN out : out[k].rc # 0 => CallsOf(k) = {}
    /\ \A i \in 1..Len(calls) :
           /\ IsQuery(calls[i]) <=> i <= 3
           /\ i <= 3 => calls[i].cmd = <<GIT, CONFIG, GET_ALL,
                                         CFSYNC_DOT \o <<FETCH, MERGE, PULL>>[i]>>
    /\ (Len(calls) < 3 /\ calls # <<>> /\ raised = "none") => pc = "gather"
    /\ raised = "CalledProcessError" =>
           (IsSub(calls[Len(calls)]) /\ calls[Len(calls)].rc # 0)
    /\ CompletedRun =>
           \A k \in Categories :
               out[k].rc = 0 => Cardinality(CallsOf(k)) = Len(config[k].list)

C9_Witness ==
    /\ CompletedRun
    /\ exitStatus = 0
    /\ out[FETCH].rc # 0
    /\ out[MERGE].rc = 0
    /\ out[PULL].rc # 0
    /\ CallsOf(MERGE) # {}
    /\ Len(calls) = 3 + Len(config[MERGE].list)

\* a text made of newlines only, the empty text included
OnlyNewlines(t) == \A i \in 1..Len(t) : t[i] = NL

(***************************************************************************)
(* C10: a category is skipped only when its query failed; a query that     *)
(* succeeds with an empty text or with newlines only gives the one-element *)
(* sequence [""], which counts as present and leads to exactly one         *)
(* invocation of the subcommand, with argument vector [git, category].     *)
(***************************************************************************)
C10_EmptyValueStillRuns ==
    /\ \A k \in DOMAIN out :
           (out[k].rc = 0 /\ OnlyNewlines(out[k].text)) =>
               config[k] = [isNone |-> FALSE, list |-> << <<>> >>]
    /\ CompletedRun =>
           \A k \in Categories :
               /\ CallsOf(k) = {} => out[k].rc # 0
               /\ (out[k].rc = 0 /\ OnlyNewlines(out[k].text)) =>
                      /\ Cardinality(CallsOf(k)) = 1
                      /\ \A i \in CallsOf(k) : calls[i].cmd = <<GIT, k>>

C10_Witness ==
    /\ CompletedRun
    /\ out[FETCH] = [kind |-> "exit", rc |-> 0, text |-> <<>>]
    /\ out[MERGE] = [kind |-> "exit", rc |-> 0, text |-> <<NL>>]
    /\ \E i \in 1..Len(calls) : calls[i].cmd = <<GIT, FETCH>>
    /\ \E i \in 1..Len(calls) : calls[i].cmd = <<GIT, MERGE>>

====
